---------------------------- MODULE Spec2Model ----------------------------
(***************************************************************************)
(* Model of src/main.go: five Echo handlers (getUsers, getUser,            *)
(* createUser, updateUser, deleteUser), each of which builds a client      *)
(* handle with getDynamoDBClient, issues one call against the "users"      *)
(* table and maps the outcome to an HTTP response.                         *)
(*                                                                         *)
(* The table is the remote store.  It is modelled as the key-value table   *)
(* the handlers address: items are attribute maps keyed by "id", every     *)
(* call (Scan, GetItem, PutItem, UpdateItem, DeleteItem) takes effect      *)
(* atomically and reads see the latest write, a Scan answers with the      *)
(* whole table, and any call may fail, which the handler sees as err.      *)
(* A string is a sequence of one-character strings wherever the code       *)
(* formats or parses it (the N attribute of "age").                        *)
(***************************************************************************)
EXTENDS Integers, Sequences, FiniteSets, TLC

\* ------------------------------------------------------------------ bounds
\* Cap on the number of successful Create (resp. Delete) requests counted.
MaxCount == 2

\* ------------------------------------------------------------- input sets
\* Path parameter values of /users/:id, and the keys the table can hold.
Keys == {"a", "b"}
\* Values a decoded body can carry; an absent field is the empty sequence.
BodyIds == {<<>>, <<"a">>, <<"b">>}
BodyNames == {<<>>, <<"x">>}
BodyAges == {<<>>, <<-12>>}
\* Concurrent request-handling units of the HTTP server.
Procs == {"p1", "p2", "p3"}

\* ---------------------------------------------------------------- helpers
\* type User struct { ID string; Name string; Age int }
User(i, n, a) == [ID |-> i, Name |-> n, Age |-> a]

\* new(User): the zero value every field keeps when the body omits it.
ZeroUser == User("", "", 0)

\* A request body: undecodable, or a JSON object with optional fields.
Bodies ==
    {[ok |-> FALSE, id |-> <<>>, name |-> <<>>, age |-> <<>>]}
    \cup [ok : {TRUE}, id : BodyIds, name : BodyNames, age : BodyAges]

\* A request without a body (GET, DELETE).
NoBody == [ok |-> TRUE, id |-> <<>>, name |-> <<>>, age |-> <<>>]

\* c.Bind(user): an undecodable body is an error; a decodable one overwrites
\* the fields it names and leaves the others at their zero value.
Bind(body) ==
    [err  |-> ~body.ok,
     user |-> IF ~body.ok THEN ZeroUser
              ELSE User(IF body.id = <<>> THEN "" ELSE body.id[1],
                        IF body.name = <<>> THEN "" ELSE body.name[1],
                        IF body.age = <<>> THEN 0 ELSE body.age[1])]

DigitChar(d) ==
    CASE d = 0 -> "0" [] d = 1 -> "1" [] d = 2 -> "2" [] d = 3 -> "3"
      [] d = 4 -> "4" [] d = 5 -> "5" [] d = 6 -> "6" [] d = 7 -> "7"
      [] d = 8 -> "8" [] d = 9 -> "9"

RECURSIVE FormatNat(_)
FormatNat(n) ==
    IF n < 10 THEN <<DigitChar(n)>>
    ELSE Append(FormatNat(n \div 10), DigitChar(n % 10))

\* fmt.Sprintf("%d", user.Age)
Sprintf_d(n) == IF n < 0 THEN <<"-">> \o FormatNat(-n) ELSE FormatNat(n)

DigitVal(c) == CHOOSE d \in 0..9 : DigitChar(d) = c

RECURSIVE ParseNat(_)
ParseNat(s) ==
    IF s = <<>> THEN 0
    ELSE 10 * ParseNat(SubSeq(s, 1, Len(s) - 1)) + DigitVal(s[Len(s)])

\* int(*item["age"].N): N holds the number as the decimal string Sprintf_d
\* wrote; the conversion is read as the decimal parse of that string.
IntOfN(s) == IF s[1] = "-" THEN -ParseNat(Tail(s)) ELSE ParseNat(s)

\* ------------------------------------------------------------ the store
\* The key schema of the table rejects an empty-string key.
KeyInvalid(key) == key = ""

\* svc.Scan: every item of the table, in an order the store chooses.
Scan(t) ==
    LET n == Cardinality(DOMAIN t)
    IN {s \in [1..n -> {t[k] : k \in DOMAIN t}] :
           \A i, j \in 1..n : i # j => s[i] # s[j]}

\* svc.GetItem: the item under the key, or no item (result.Item == nil).
GetItem(t, key) == IF key \in DOMAIN t THEN <<t[key]>> ELSE <<>>

\* Mutant of PutItem: a conditional put that keeps an existing item.
PutItemIfAbsent(t, item) ==
    [k \in DOMAIN t \cup {item.id} |-> IF k \in DOMAIN t THEN t[k] ELSE item]

\* svc.PutItem: the item replaces whatever the table held under its key.
PutItem(t, item) ==
    [k \in DOMAIN t \cup {item.id} |-> IF k = item.id THEN item ELSE t[k]]

\* Mutant of UpdateItem: an update that only touches an existing item.
UpdateItemExisting(t, key, n, a) ==
    [k \in DOMAIN t |->
        IF k = key THEN [id |-> key, name |-> n, age |-> a] ELSE t[k]]

\* Mutant of UpdateItem: the update expression sets the name only.
UpdateItemNameOnly(t, key, n, a) ==
    [k \in DOMAIN t \cup {key} |->
        IF k = key
        THEN [id |-> key, name |-> n,
              age |-> IF key \in DOMAIN t THEN t[key].age ELSE a]
        ELSE t[k]]

\* svc.UpdateItem with "set #n = :n, #a = :a": sets the two attributes of the
\* item under the key, creating the item (key attribute only) when absent.
UpdateItem(t, key, n, a) ==
    [k \in DOMAIN t \cup {key} |->
        IF k = key THEN [id |-> key, name |-> n, age |-> a] ELSE t[k]]

\* svc.DeleteItem: removes the item under the key; no error when absent.
DeleteItem(t, key) == [k \in DOMAIN t \ {key} |-> t[k]]

\* ------------------------------------------------------------ responses
Response(status, kind, user, users, message) ==
    [status |-> status, kind |-> kind, user |-> user, users |-> users,
     message |-> message]

\* No response was written (the process exited while handling the request).
NoResponse == Response(0, "none", ZeroUser, <<>>, "")

\* echo.NewHTTPError(code, message)
HTTPError(code, message) == Response(code, "error", ZeroUser, <<>>, message)

\* c.JSON(code, user) for a User value.
JSONUser(code, user) == Response(code, "object", user, <<>>, "")

\* var users []User: the nil slice.
NilSlice == [isNil |-> TRUE, elems |-> <<>>]

\* append(users, user)
GoAppend(s, x) == [isNil |-> FALSE, elems |-> Append(s.elems, x)]

\* c.JSON(code, users) for a []User: encoding/json writes null for a nil
\* slice and an array for any other slice.
JSONUsers(code, s) ==
    Response(code, IF s.isNil THEN "null" ELSE "array", ZeroUser, s.elems, "")

\* c.NoContent(code)
NoContent(code) == Response(code, "empty", ZeroUser, <<>>, "")

\* User{ID: *item["id"].S, Name: *item["name"].S, Age: int(*item["age"].N)}
UserOfItem(item) == User(item.id, item.name, IntOfN(item.age))

\* The Item map createUser passes to PutItem.
ItemOfUser(user) ==
    [id |-> user.ID, name |-> user.Name, age |-> Sprintf_d(user.Age)]

\* Mutant of CollectUsers: the loop assigns instead of appending.
CollectUsersLast(users, items) ==
    IF items = <<>> THEN users
    ELSE GoAppend(NilSlice, UserOfItem(items[Len(items)]))

RECURSIVE CollectUsers(_, _)
\* for _, item := range result.Items { users = append(users, User{...}) }
CollectUsers(users, items) ==
    IF items = <<>> THEN users
    ELSE CollectUsers(GoAppend(users, UserOfItem(Head(items))), Tail(items))


\* --------------------------------------------------- the handlers' calls
\* Each operator is the part of a handler after its client handle is built
\* and its body bound: the single store call and the response mapped from
\* it.  storeOk is FALSE when the store call returns an error.
Outcome(t, resp, failed) ==
    [table |-> t, resp |-> resp, failed |-> failed, calls |-> 1]

getUsersCall(t, storeOk, order) ==
    IF ~storeOk
    THEN Outcome(t, HTTPError(500, "Failed to retrieve users"), TRUE)
    ELSE Outcome(t, JSONUsers(200, CollectUsers(NilSlice, order)), FALSE)

\* Mutant of getUserCall: a missing item is reported as a store failure.
getUserCallNotFoundIs500(t, id, storeOk) ==
    IF ~storeOk \/ KeyInvalid(id)
    THEN Outcome(t, HTTPError(500, "Failed to retrieve user"), TRUE)
    ELSE IF GetItem(t, id) = <<>>
         THEN Outcome(t, HTTPError(500, "Failed to retrieve user"), FALSE)
         ELSE Outcome(t, JSONUser(200, UserOfItem(GetItem(t, id)[1])), FALSE)

getUserCall(t, id, storeOk) ==
    IF ~storeOk \/ KeyInvalid(id)
    THEN Outcome(t, HTTPError(500, "Failed to retrieve user"), TRUE)
    ELSE LET result == GetItem(t, id)
         IN IF result = <<>>
            THEN Outcome(t, HTTPError(404, "User not found"), FALSE)
            ELSE Outcome(t, JSONUser(200, UserOfItem(result[1])), FALSE)

createUserCall(t, user, storeOk) ==
    IF ~storeOk \/ KeyInvalid(user.ID)
    THEN Outcome(t, HTTPError(500, "Failed to create user"), TRUE)
    ELSE Outcome(PutItem(t, ItemOfUser(user)), JSONUser(201, user), FALSE)

\* Mutant of updateUserCall: the key is taken from the body, not the path.
updateUserCallBodyKey(t, id, user, storeOk) ==
    IF ~storeOk \/ KeyInvalid(user.ID)
    THEN Outcome(t, HTTPError(500, "Failed to update user"), TRUE)
    ELSE Outcome(UpdateItem(t, user.ID, user.Name, Sprintf_d(user.Age)),
                 JSONUser(200, user), FALSE)

updateUserCall(t, id, user, storeOk) ==
    IF ~storeOk \/ KeyInvalid(id)
    THEN Outcome(t, HTTPError(500, "Failed to update user"), TRUE)
    ELSE Outcome(UpdateItem(t, id, user.Name, Sprintf_d(user.Age)),
                 JSONUser(200, user), FALSE)

\* Mutant of deleteUserCall: deleting a missing item is answered 404.
deleteUserCallMustExist(t, id, storeOk) ==
    IF ~storeOk \/ KeyInvalid(id)
    THEN Outcome(t, HTTPError(500, "Failed to delete user"), TRUE)
    ELSE IF id \notin DOMAIN t
         THEN Outcome(t, HTTPError(404, "User not found"), FALSE)
         ELSE Outcome(DeleteItem(t, id), NoContent(204), FALSE)

deleteUserCall(t, id, storeOk) ==
    IF ~storeOk \/ KeyInvalid(id)
    THEN Outcome(t, HTTPError(500, "Failed to delete user"), TRUE)
    ELSE Outcome(DeleteItem(t, id), NoContent(204), FALSE)

\* The handler the router binds to the request's method and path.
HandlerCall(t, op, id, user, storeOk, order) ==
    CASE op = "getUsers"   -> getUsersCall(t, storeOk, order)
      [] op = "getUser"    -> getUserCall(t, id, storeOk)
      [] op = "createUser" -> createUserCall(t, user, storeOk)
      [] op = "updateUser" -> updateUserCall(t, id, user, storeOk)
      [] op = "deleteUser" -> deleteUserCall(t, id, storeOk)

\* createUser and updateUser bind the body before building the store input;
\* the other handlers never read it.
BindsBody(op) == op \in {"createUser", "updateUser"}

\* getDynamoDBClient(): session.NewSession either yields a session, and the
\* client is returned, or fails, and log.Fatal ends the process.
getDynamoDBClient(sessOk) == sessOk

\* Mutant of Handler: the error of Bind is dropped.
HandlerNoBindCheck(t, op, id, body, storeOk, order) ==
    HandlerCall(t, op, id, Bind(body).user, storeOk, order)

\* The whole of a handler once its client handle exists: bind the body
\* (createUser, updateUser), then the store call and its response.
Handler(t, op, id, body, storeOk, order) ==
    IF BindsBody(op) /\ Bind(body).err
    THEN [table |-> t, resp |-> HTTPError(400, "Invalid request payload"),
          failed |-> FALSE, calls |-> 0]
    ELSE HandlerCall(t, op, id, Bind(body).user, storeOk, order)

\* ------------------------------------------------------------------ state
VARIABLES
    table,        \* the "users" table: key -> item
    alive,        \* the server process is running
    req,          \* the request handled last
    resp,         \* the response written to it
    prevTable,    \* the table as it was before that request
    lastWrite,    \* per key, the last request that wrote it successfully
    createCount,  \* successful Create requests so far
    deleteCount,  \* successful Delete requests so far
    allFresh,     \* every Create so far added a key, every Delete removed one
    repeated,     \* the request before req was the same call and succeeded
    overwrote,    \* per key: the last successful Create found the key present
    pc,           \* per handling unit: "idle", "call" (before its store call), "done"
    pending       \* per handling unit: the request it is handling

vars ==
    <<table, alive, req, resp, prevTable, lastWrite, createCount,
      deleteCount, allFresh, repeated, overwrote, pc, pending>>

counters == <<createCount, deleteCount, allFresh, repeated, overwrote>>
units == <<pc, pending>>

\* A request, how its handling failed ("none", "session", "store") and the
\* number of store calls its handler issued.
Request(op, id, body, fault, calls) ==
    [op |-> op, id |-> id, body |-> body, fault |-> fault, calls |-> calls]

\* lastWrite of a key no request has written.
NoWrite == [op |-> "none", user |-> ZeroUser]

Init ==
    /\ table = [k \in {} |-> ItemOfUser(ZeroUser)]
    /\ alive = TRUE
    /\ req = Request("none", "", NoBody, "none", 0)
    /\ resp = NoResponse
    /\ prevTable = [k \in {} |-> ItemOfUser(ZeroUser)]
    /\ lastWrite = [k \in Keys |-> NoWrite]
    /\ repeated = FALSE
    /\ overwrote = [k \in Keys |-> FALSE]
    /\ createCount = 0
    /\ deleteCount = 0
    /\ allFresh = TRUE
    /\ pc = [p \in Procs |-> "idle"]
    /\ pending = [p \in Procs |-> Request("none", "", NoBody, "none", 0)]

Succeeded(r) == r.status \in {200, 201, 204}

\* The key a request's store call addresses.
KeyOf(op, id, body) == IF op = "createUser" THEN Bind(body).user.ID ELSE id

\* Record the response to a request and what the request did to the table.
Respond(op, id, body, out) ==
    /\ table' = out.table
    /\ prevTable' = table
    /\ req' = Request(op, id, body, IF out.failed THEN "store" ELSE "none",
                      out.calls)
    /\ resp' = out.resp
    /\ lastWrite' =
         IF Succeeded(out.resp) /\ op \in {"createUser", "updateUser", "deleteUser"}
         THEN [lastWrite EXCEPT ![KeyOf(op, id, body)] =
                  [op |-> op, user |-> Bind(body).user]]
         ELSE lastWrite

\* log.Fatal in getDynamoDBClient: the process exits; no response is written.
Fatal(op, id, body) ==
    /\ alive' = FALSE
    /\ req' = Request(op, id, body, "session", 0)
    /\ resp' = NoResponse
    /\ prevTable' = table
    /\ UNCHANGED <<table, lastWrite>>

\* One request handled from start to end with no other request in between.
Serve(op, id, body, sessOk, storeOk, order) ==
    /\ alive
    /\ \A p \in Procs : pc[p] = "idle"
    /\ UNCHANGED units
    /\ IF ~getDynamoDBClient(sessOk)
       THEN Fatal(op, id, body)
       ELSE /\ Respond(op, id, body, Handler(table, op, id, body, storeOk, order))
            /\ UNCHANGED alive

\* GET /users
getUsers ==
    /\ \E sessOk, storeOk \in BOOLEAN : \E order \in Scan(table) :
          Serve("getUsers", "", NoBody, sessOk, storeOk, order)
    /\ UNCHANGED counters

\* GET /users/:id
getUser ==
    /\ \E id \in Keys : \E sessOk, storeOk \in BOOLEAN :
          Serve("getUser", id, NoBody, sessOk, storeOk, <<>>)
    /\ UNCHANGED counters

\* POST /users
createUser ==
    /\ \E body \in Bodies : \E sessOk, storeOk \in BOOLEAN :
          Serve("createUser", "", body, sessOk, storeOk, <<>>)
    /\ UNCHANGED counters

\* PUT /users/:id
updateUser ==
    /\ \E id \in Keys : \E body \in Bodies : \E sessOk, storeOk \in BOOLEAN :
          Serve("updateUser", id, body, sessOk, storeOk, <<>>)
    /\ UNCHANGED counters

\* DELETE /users/:id
deleteUser ==
    /\ \E id \in Keys : \E sessOk, storeOk \in BOOLEAN :
          Serve("deleteUser", id, NoBody, sessOk, storeOk, <<>>)
    /\ UNCHANGED counters

Next == getUsers \/ getUser \/ createUser \/ updateUser \/ deleteUser

Spec == Init /\ [][Next]_vars

\* ------------------------------------------- counting Creates and Deletes
\* The handlers of the Create, Delete, Get and List routes, with the history
\* of the successful Creates and Deletes kept.
Count(op, key) ==
    /\ createCount' =
         IF op = "createUser" /\ Succeeded(resp') THEN createCount + 1
         ELSE createCount
    /\ deleteCount' =
         IF op = "deleteUser" /\ Succeeded(resp') THEN deleteCount + 1
         ELSE deleteCount
    /\ allFresh' =
         /\ allFresh
         /\ (op = "createUser" /\ Succeeded(resp')) => key \notin DOMAIN table
         /\ (op = "deleteUser" /\ Succeeded(resp')) => key \in DOMAIN table
    /\ repeated' = (req.op = op /\ req.id = key /\ Succeeded(resp))
    /\ overwrote' =
         IF op = "createUser" /\ Succeeded(resp')
         THEN [overwrote EXCEPT ![key] = key \in DOMAIN table]
         ELSE overwrote

\* GET /users
listCounted ==
    \E sessOk, storeOk \in BOOLEAN : \E order \in Scan(table) :
        /\ Serve("getUsers", "", NoBody, sessOk, storeOk, order)
        /\ Count("getUsers", "")

\* GET /users/:id
getCounted ==
    \E id \in Keys : \E sessOk, storeOk \in BOOLEAN :
        /\ Serve("getUser", id, NoBody, sessOk, storeOk, <<>>)
        /\ Count("getUser", id)

\* POST /users
createCounted ==
    /\ createCount < MaxCount
    /\ \E body \in Bodies : \E sessOk, storeOk \in BOOLEAN :
          /\ Serve("createUser", "", body, sessOk, storeOk, <<>>)
          /\ Count("createUser", KeyOf("createUser", "", body))

\* DELETE /users/:id
deleteCounted ==
    /\ deleteCount < MaxCount
    /\ \E id \in Keys : \E sessOk, storeOk \in BOOLEAN :
          /\ Serve("deleteUser", id, NoBody, sessOk, storeOk, <<>>)
          /\ Count("deleteUser", id)

NextCount == listCounted \/ getCounted \/ createCounted \/ deleteCounted

SpecCount == Init /\ [][NextCount]_vars

\* ------------------------------------------------- concurrent handling
\* Requests the concurrent handling units draw from.
ConcBodies ==
    {b \in Bodies : ~b.ok \/ (b.id # <<>> /\ (b.name = <<>>) # (b.age = <<>>))}

\* A handling unit takes a request: it builds its client handle and binds
\* the body.  A bind error is answered at once; otherwise the unit stands
\* before its store call.
BeginRequest(p) ==
    /\ alive
    /\ pc[p] = "idle"
    /\ UNCHANGED counters
    /\ \E op \in {"getUsers", "getUser", "createUser", "updateUser", "deleteUser"} :
       \E id \in IF op \in {"getUsers", "createUser"} THEN {""} ELSE Keys :
       \E body \in IF BindsBody(op) THEN ConcBodies ELSE {NoBody} :
       \E sessOk \in BOOLEAN :
          IF ~getDynamoDBClient(sessOk)
          THEN Fatal(op, id, body) /\ UNCHANGED units
          ELSE /\ UNCHANGED alive
               /\ IF BindsBody(op) /\ Bind(body).err
                  THEN /\ Respond(op, id, body, Handler(table, op, id, body, TRUE, <<>>))
                       /\ pc' = [pc EXCEPT ![p] = "done"]
                       /\ UNCHANGED pending
                  ELSE /\ pc' = [pc EXCEPT ![p] = "call"]
                       /\ pending' = [pending EXCEPT ![p] = Request(op, id, body, "none", 0)]
                       /\ UNCHANGED <<table, req, resp, prevTable, lastWrite>>

\* The unit issues its store call and answers the request.
StoreCall(p) ==
    /\ alive
    /\ pc[p] = "call"
    /\ UNCHANGED <<alive, counters>>
    /\ pc' = [pc EXCEPT ![p] = "done"]
    /\ pending' = [pending EXCEPT ![p] = Request("none", "", NoBody, "none", 0)]
    /\ \E storeOk \in BOOLEAN : \E order \in Scan(table) :
          Respond(pending[p].op, pending[p].id, pending[p].body,
                  HandlerCall(table, pending[p].op, pending[p].id,
                              Bind(pending[p].body).user, storeOk, order))

NextConc == \E p \in Procs : BeginRequest(p) \/ StoreCall(p)

SpecConc == Init /\ [][NextConc]_vars

\* ---------------------------------------------------------------- claims
Range(seq) == {seq[i] : i \in 1..Len(seq)}

\* Keys whose last successful write was a Create or an Update.
LiveKeys == {k \in Keys : lastWrite[k].op \in {"createUser", "updateUser"}}

\* The record a key holds according to the request that wrote it last.
WrittenUser(k) == User(k, lastWrite[k].user.Name, lastWrite[k].user.Age)

\* The table holds exactly the keys of prevTable, and the same items except
\* possibly under key k.
SameExcept(k) ==
    /\ DOMAIN table \ {k} = DOMAIN prevTable \ {k}
    /\ \A j \in DOMAIN table \ {k} : table[j] = prevTable[j]

C2_GetAbsentIs404 ==
    (req.op = "getUser" /\ req.fault = "none" /\ req.id \notin LiveKeys)
    => /\ resp.status = 404
       /\ resp.kind = "error"

C2_Witness ==
    /\ req.op = "getUser"
    /\ resp.status = 404
    /\ lastWrite[req.id].op = "deleteUser"
    /\ createCount > 0
    /\ DOMAIN table # {}

\* C3: a Delete whose store call does not fail returns 204 whether or not the
\* record exists and leaves no record under the id; a second consecutive
\* Delete of the same id returns 204 too and leaves the table as the first
\* left it.
C3_DeleteIdempotent ==
    (req.op = "deleteUser" /\ req.fault = "none")
    => /\ resp.status = 204
       /\ resp.kind = "empty"
       /\ req.id \notin DOMAIN table
       /\ SameExcept(req.id)
       /\ repeated => table = prevTable

C3_Witness ==
    /\ req.op = "deleteUser"
    /\ resp.status = 204
    /\ repeated
    /\ deleteCount = 2
    /\ allFresh = FALSE
    /\ DOMAIN table # {}

C6_BadBodyIs400NoWrite ==
    (req.op \in {"createUser", "updateUser"} /\ ~req.body.ok
        /\ req.fault # "session")
    => /\ resp.status = 400
       /\ resp.kind = "error"
       /\ req.calls = 0
       /\ table = prevTable

C6_Witness ==
    /\ req.op = "updateUser"
    /\ ~req.body.ok
    /\ resp.status = 400
    /\ req.id \in DOMAIN table

\* C7 as stated: in every handler a failure of the store call or of the
\* session initialization is answered 500 with a fixed message, and the
\* process goes on serving.
C7_FailureIs500AndServing ==
    (req.fault # "none")
    => /\ resp.status = 500
       /\ resp.kind = "error"
       /\ alive

\* C8 as stated: when the scan succeeds on an empty table, List answers 200
\* with an empty JSON array, not null.
C8_EmptyListIsArray ==
    (req.op = "getUsers" /\ req.fault = "none" /\ DOMAIN prevTable = {})
    => /\ resp.status = 200
       /\ resp.kind = "array"
       /\ resp.users = <<>>

=============================================================================
